---- MODULE Spec2Model ----
(***************************************************************************)
(* Conversation history store (HistoryManager) and the agent facade        *)
(* (Context7Agent.chat) of context7-agent, modelled as a state machine.    *)
(* Handlers are awaited one after the other, as the CLI does.               *)
(***************************************************************************)
EXTENDS Integers, Sequences, FiniteSets, TLC

\* ---------------------------------------------------------------- bounds
MaxN == 2          \* largest positive max_history explored
NegDepth == 1      \* most negative max_history explored is -NegDepth
MaxClock == 1      \* datetime.now() readings are 0..MaxClock
MaxAdded == 3      \* turns appended, over all conversations, since they were empty
MaxText == 52      \* longest message content given to the queries
MaxTasks == 2      \* coroutines in flight at the same time
MaxCallers == 5    \* calls of one debounced function
MaxExchanges == 3  \* chat calls issued one after the other per conversation
MaxInputs == 3     \* lines the main loop of the CLI reads
MaxSessions == 2   \* sessions created by one SessionManager
MaxMessages == 3   \* messages added to one ConversationHistory

\* ------------------------------------------------------------- constants
SummaryLimit == 50
TimestampLen == 26   \* characters of datetime.now().isoformat() \* characters of the last message shown by get_conversations

\* ---------------------------------------------------------------- inputs
None == "<None>"                     \* Python's None for clear()'s argument
Ids == {"", "c1"}                    \* conversation ids (any str, "" included)
Messages == {"hi"}                   \* user messages given to chat
Responses == {"ok"}                  \* str(result.data) of the agent
AddInputs == {<<"user", "hi">>, <<"assistant", "ok">>}
MaxHistoryValues == (0 - NegDepth)..MaxN
IoOutcomes == {"ok", "denied", "truncated", "partial"}
Conditions == {"ok", "denied", "full"}   \* what the file system allows

VARIABLES
    history,       \* HistoryManager._history: insertion-ordered dict id -> turns
    max_history,   \* HistoryManager.max_history
    disk,          \* the file at history_path
    clock,         \* last reading of datetime.now()
    lastOp,        \* the call that returned last, with its arguments and result
    added,         \* per id: turns appended since the conversation was empty
    tracked,       \* ids whose conversation started empty
    fs,            \* the condition of the file system during the run
    tasks,         \* the coroutines in flight, each with its position
    call_count,    \* how often the debounced function has run
    dirs,          \* the directories that exist
    history_path,  \* HistoryManager.history_path
    cli,           \* the Context7CLI object and what its loop has done
    session_manager,       \* the SessionManager object of the earlier history module
    conversation_history   \* its ConversationHistory object, with the last result

\* the objects outside the HistoryManager and its callers
others == <<dirs, history_path, cli, session_manager, conversation_history>>

vars == <<history, max_history, disk, clock, lastOp, added, tracked, fs, tasks,
          call_count, others>>

\* ------------------------------------------------- Python dict and slices
Keys(h) == {h[i].id : i \in 1..Len(h)}

Has(h, id) == id \in Keys(h)

Index(h, id) == CHOOSE i \in 1..Len(h) : h[i].id = id

Get(h, id) == IF Has(h, id) THEN h[Index(h, id)].msgs ELSE <<>>

Put(h, id, msgs) ==
    IF Has(h, id)
    THEN [h EXCEPT ![Index(h, id)] = [id |-> id, msgs |-> msgs]]
    ELSE Append(h, [id |-> id, msgs |-> msgs])

Del(h, id) == SelectSeq(h, LAMBDA e : e.id # id)

Min(a, b) == IF a < b THEN a ELSE b

Max(a, b) == IF a > b THEN a ELSE b

\* s[k:] with Python's treatment of a negative or out-of-range start
PySliceFrom(s, k) ==
    LET start == IF k < 0 THEN Max(Len(s) + k, 0) ELSE Min(k, Len(s))
    IN  SubSeq(s, start + 1, Len(s))

Truthy(id) == id # None /\ id # ""

\* ------------------------------------------------------------- the file
NoFile == [exists |-> FALSE, text |-> "none", doc |-> <<>>]

EmptyFile == [exists |-> TRUE, text |-> "empty", doc |-> <<>>]

GarbageFile == [exists |-> TRUE, text |-> "notjson", doc |-> <<>>]

JsonFile(doc) == [exists |-> TRUE, text |-> "json", doc |-> doc]

\* json.dumps: an object whose members are <<key, array>> in dict order, each
\* array element an object of <<name, value>> members
DumpTurn(m) ==
    << <<"role", m.role>>, <<"content", m.content>>, <<"timestamp", m.timestamp>> >>

DumpTurns(msgs) == [i \in 1..Len(msgs) |-> DumpTurn(msgs[i])]

Dumps(h) == [i \in 1..Len(h) |-> <<h[i].id, DumpTurns(h[i].msgs)>>]

\* json.loads: members are inserted in document order, a repeated key keeps
\* its first position and takes the last value
Member(obj, name) ==
    LET i == CHOOSE j \in 1..Len(obj) :
                 obj[j][1] = name /\ \A k \in (j + 1)..Len(obj) : obj[k][1] # name
    IN  obj[i][2]

\* a reader that keeps role and content only
LoadTurn_bare(obj) ==
    [role |-> Member(obj, "role"), content |-> Member(obj, "content"), timestamp |-> 0]

LoadTurn(obj) ==
    [role |-> Member(obj, "role"), content |-> Member(obj, "content"),
     timestamp |-> Member(obj, "timestamp")]

LoadTurns(arr) == [i \in 1..Len(arr) |-> LoadTurn(arr[i])]

RECURSIVE LoadsFrom(_, _, _)
LoadsFrom(doc, i, h) ==
    IF i > Len(doc) THEN h
    ELSE LoadsFrom(doc, i + 1, Put(h, doc[i][1], LoadTurns(doc[i][2])))

Loads(doc) == LoadsFrom(doc, 1, <<>>)

\* the length of json.dumps(_history, indent=2)
RECURSIVE SeqSum(_)
SeqSum(s) == IF s = <<>> THEN 0 ELSE Head(s) + SeqSum(Tail(s))

TurnLen(obj) ==
    72 + TimestampLen + Len(Member(obj, "role")) + Len(Member(obj, "content"))

ArrayLen(arr) ==
    IF arr = <<>> THEN 2
    ELSE 2 + SeqSum([i \in 1..Len(arr) |-> TurnLen(arr[i])]) + 2 * (Len(arr) - 1) + 4

EntryLen(e) == 2 + (Len(e[1]) + 2) + 2 + ArrayLen(e[2])

TextLen(doc) ==
    IF doc = <<>> THEN 2
    ELSE 2 + SeqSum([i \in 1..Len(doc) |-> EntryLen(doc[i])]) + 2 * (Len(doc) - 1) + 2

\* the size of the file; a file that is not JSON keeps in doc the document
\* whose text reaches to its end
Size(d) == IF d.exists /\ d.text # "empty" THEN TextLen(d.doc) ELSE 0

\* open(history_path, 'w')
open_w(d) == EmptyFile

\* closing a file object that flushes the current store, not its buffer
close_fresh(d, snap, h) == JsonFile(Dumps(h))

\* closing the file object: its buffer, the text dumped when write was called,
\* goes to offset 0 of whatever the file holds by then
close(d, snap, h) ==
    IF TextLen(snap) >= Size(d) THEN JsonFile(snap)
    ELSE [exists |-> TRUE, text |-> "notjson", doc |-> d.doc]

\* ------------------------------------------------------- HistoryManager
\* save that never writes
save_skip(h, d, io) == d

save(h, d, io) ==
    CASE io = "ok"        -> JsonFile(Dumps(h))
      [] io = "denied"    -> d
      [] io = "truncated" -> EmptyFile
      [] io = "partial"   -> GarbageFile

load(h, d, io) ==
    IF ~d.exists THEN h
    ELSE IF io # "ok" THEN <<>>
    ELSE IF d.text = "empty" THEN h
    ELSE IF d.text = "json" THEN Loads(d.doc)
    ELSE <<>>

Turn(role, content, ts) == [role |-> role, content |-> content, timestamp |-> ts]

\* add_message truncating with [:max_history], keeping the oldest turns
add_message_head(h, n, id, role, content, ts) ==
    LET h1 == IF ~Has(h, id) THEN Put(h, id, <<>>) ELSE h
        h2 == Put(h1, id, Append(Get(h1, id), Turn(role, content, ts)))
    IN  IF Len(Get(h2, id)) > n
        THEN Put(h2, id, SubSeq(Get(h2, id), 1, Max(n, 0)))
        ELSE h2

\* add_message applying the bound to every conversation of the store
add_message_all(h, n, id, role, content, ts) ==
    LET h1 == IF ~Has(h, id) THEN Put(h, id, <<>>) ELSE h
        h2 == Put(h1, id, Append(Get(h1, id), Turn(role, content, ts)))
    IN  [i \in 1..Len(h2) |->
            IF Len(h2[i].msgs) > n
            THEN [id |-> h2[i].id, msgs |-> PySliceFrom(h2[i].msgs, 0 - n)]
            ELSE h2[i]]

\* add_message that stamps every turn of the conversation anew
add_message_restamp(h, n, id, role, content, ts) ==
    LET h1 == IF ~Has(h, id) THEN Put(h, id, <<>>) ELSE h
        all == Append(Get(h1, id), Turn(role, content, ts))
        h2 == Put(h1, id, [i \in 1..Len(all) |-> [all[i] EXCEPT !.timestamp = ts]])
    IN  IF Len(Get(h2, id)) > n
        THEN Put(h2, id, PySliceFrom(Get(h2, id), 0 - n))
        ELSE h2

add_message(h, n, id, role, content, ts) ==
    LET h1 == IF ~Has(h, id) THEN Put(h, id, <<>>) ELSE h
        h2 == Put(h1, id, Append(Get(h1, id), Turn(role, content, ts)))
    IN  IF Len(Get(h2, id)) > n
        THEN Put(h2, id, PySliceFrom(Get(h2, id), 0 - n))
        ELSE h2

get_messages(h, id) ==
    LET msgs == Get(h, id)
    IN  [i \in 1..Len(msgs) |-> [role |-> msgs[i].role, content |-> msgs[i].content]]

\* the store a call leaves behind, with what it returns
Returns(h, result) == [history |-> h, result |-> result]

\* get_messages reading with setdefault, which files a list under a new id
get_messages_setdefault(h, id) ==
    Returns(IF Has(h, id) THEN h ELSE Put(h, id, <<>>), get_messages(h, id))

\* get_messages as a call: _history.get(id, []) reads the dict, nothing more
get_messages_call(h, id) == Returns(h, get_messages(h, id))

\* get_conversations with >= in the length test
Shorten_ge(text) ==
    IF Len(text) >= SummaryLimit
    THEN SubSeq(text, 1, SummaryLimit) \o "..."
    ELSE text

\* last_message[:50] + "..." if len(last_message) > 50 else last_message
Shorten(text) ==
    IF Len(text) > SummaryLimit
    THEN SubSeq(text, 1, SummaryLimit) \o "..."
    ELSE text

Summary(e) ==
    [id |-> e.id,
     last_message |-> Shorten(e.msgs[Len(e.msgs)].content),
     message_count |-> Len(e.msgs)]

\* the list built by the loop over self._history.items()
Summaries(h) ==
    LET kept == SelectSeq(h, LAMBDA e : e.msgs # <<>>)
    IN  [i \in 1..Len(kept) |-> Summary(kept[i])]

\* the sort key: the timestamp of the last turn of the conversation
SortKey(h, x) == LET msgs == Get(h, x.id) IN msgs[Len(msgs)].timestamp

\* sorted(..., reverse=True) is stable: x goes behind every element whose key
\* is at least its own
InsertDesc(h, out, x) ==
    LET ahead == {i \in 1..Len(out) : SortKey(h, out[i]) >= SortKey(h, x)}
        k == IF ahead = {} THEN 0 ELSE CHOOSE i \in ahead : \A j \in ahead : j <= i
    IN  SubSeq(out, 1, k) \o <<x>> \o SubSeq(out, k + 1, Len(out))

RECURSIVE SortedDesc(_, _, _, _)
SortedDesc(h, xs, i, out) ==
    IF i > Len(xs) THEN out
    ELSE SortedDesc(h, xs, i + 1, InsertDesc(h, out, xs[i]))

\* get_conversations that lists empty conversations too
get_conversations_all(h) ==
    LET xs == [i \in 1..Len(h) |->
                  [id |-> h[i].id,
                   last_message |-> IF h[i].msgs = <<>> THEN ""
                                    ELSE Shorten(h[i].msgs[Len(h[i].msgs)].content),
                   message_count |-> Len(h[i].msgs)]]
    IN  xs

\* get_conversations without the sort
get_conversations_unsorted(h) == Summaries(h)

get_conversations(h) == SortedDesc(h, Summaries(h), 1, <<>>)

\* clear with a plain else: an id that is not found empties the store
clear_else(h, id) ==
    IF Truthy(id) /\ Has(h, id) THEN Del(h, id) ELSE <<>>

clear(h, id) ==
    IF Truthy(id) /\ Has(h, id) THEN Del(h, id)
    ELSE IF id = None THEN <<>>
    ELSE h

\* -------------------------------------------------------- Context7Agent
AgentError == "agent failed"         \* str(e) of the exception of agent.run

Raised == [raised |-> TRUE, data |-> AgentError]

Returned(r) == [raised |-> FALSE, data |-> r]

\* chat recording the user's message before the agent is called
chat_eager(h, n, d, id, message, agent, t1, t2, io1, io2) ==
    LET h1 == add_message(h, n, id, "user", message, t1)
        d1 == save(h1, d, io1)
    IN  IF agent.raised
        THEN [history |-> h1, disk |-> d1,
              result |-> [type |-> "error", data |-> agent.data]]
        ELSE LET h2 == add_message(h1, n, id, "assistant", agent.data, t2)
             IN  [history |-> h2, disk |-> save(h2, d1, io2),
                  result |-> [type |-> "complete", data |-> agent.data]]

\* chat recording the answer before the question
chat_swapped(h, n, d, id, message, agent, t1, t2, io1, io2) ==
    IF agent.raised
    THEN [history |-> h, disk |-> d,
          result |-> [type |-> "error", data |-> agent.data]]
    ELSE LET h1 == add_message(h, n, id, "assistant", agent.data, t1)
             d1 == save(h1, d, io1)
             h2 == add_message(h1, n, id, "user", message, t2)
         IN  [history |-> h2, disk |-> save(h2, d1, io2),
              result |-> [type |-> "complete", data |-> agent.data]]

\* chat over a save that re-raises: a failed write ends the call in the
\* except branch
chat_strict(h, n, d, id, message, agent, t1, t2, io1, io2) ==
    IF agent.raised
    THEN [history |-> h, disk |-> d,
          result |-> [type |-> "error", data |-> agent.data]]
    ELSE LET h1 == add_message(h, n, id, "user", message, t1)
             d1 == save(h1, d, io1)
             h2 == add_message(h1, n, id, "assistant", agent.data, t2)
         IN  IF io1 # "ok"
             THEN [history |-> h1, disk |-> d1,
                   result |-> [type |-> "error", data |-> io1]]
             ELSE [history |-> h2, disk |-> save(h2, d1, io2),
                   result |-> [type |-> IF io2 = "ok" THEN "complete" ELSE "error",
                               data |-> agent.data]]

\* chat: the agent call, then on success the two add_message calls, each
\* with its save; an exception of the agent call skips both
chat(h, n, d, id, message, agent, t1, t2, io1, io2) ==
    IF agent.raised
    THEN [history |-> h, disk |-> d,
          result |-> [type |-> "error", data |-> agent.data]]
    ELSE LET full_response == agent.data
             h1 == add_message(h, n, id, "user", message, t1)
             d1 == save(h1, d, io1)
             h2 == add_message(h1, n, id, "assistant", full_response, t2)
             d2 == save(h2, d1, io2)
         IN  [history |-> h2, disk |-> d2,
              result |-> [type |-> "complete", data |-> full_response]]

\* ------------------------------------------------------------ bookkeeping
NoCall == [message |-> "", raised |-> FALSE, reply |-> ""]

Op(op, id, call, result, data, saved) ==
    [op |-> op, id |-> id, call |-> call, result |-> result, data |-> data,
     saved |-> saved]

NoTurns == [id \in Ids |-> <<>>]

\* the record of what was appended to each conversation since it was empty
Track(h1, h2, appended) ==
    /\ added' = [id \in Ids |->
                    IF Get(h2, id) = <<>> THEN <<>>
                    ELSE added[id] \o appended[id]]
    /\ tracked' = {id \in Ids :
                    \/ Get(h2, id) = <<>>
                    \/ id \in tracked /\ (appended[id] # <<>> \/ Get(h2, id) = Get(h1, id))}

\* ------------------------------------------------- the other objects
\* config.history_file, whose directory Config() creates when it is built
ConfigPath == [dir |-> "data", name |-> "history.json"]

\* a history_path assigned after construction, as the test fixtures do
OtherPath == [dir |-> "tmp", name |-> "history.json"]

NewCli ==
    [current_conversation |-> "default", is_running |-> TRUE, pc |-> "loop",
     reads |-> 0, forwarded |-> <<>>, commands |-> <<>>]

\* created counts the uuid4 identifiers drawn so far
NewSessionManager ==
    [sessions |-> <<>>, current_session |-> None, loaded |-> FALSE, created |-> 0]

\* limit and result: the last call of get_recent_messages
NewConversationHistory ==
    [messages |-> <<>>, loaded |-> FALSE, limit |-> 0, result |-> <<>>]

\* the objects as their constructors leave them
OthersNew ==
    /\ dirs = {ConfigPath.dir}
    /\ history_path = ConfigPath
    /\ cli = NewCli
    /\ session_manager = NewSessionManager
    /\ conversation_history = NewConversationHistory

\* ------------------------------------------------------------------ Init
PriorStores ==
    { <<>>,
      << [id |-> "c1", msgs |-> << Turn("user", "hi", 0), Turn("assistant", "ok", 0) >>] >> }

InitDisks == {NoFile, EmptyFile, GarbageFile} \cup {JsonFile(Dumps(s)) : s \in PriorStores}

Init ==
    /\ history = <<>>
    /\ max_history \in MaxHistoryValues
    /\ disk \in InitDisks
    /\ clock = 0
    /\ lastOp = Op("init", None, NoCall, "none", "", FALSE)
    /\ added = NoTurns
    /\ tracked = Ids
    /\ fs \in Conditions
    /\ tasks = <<>>
    /\ call_count = 0
    /\ OthersNew

\* --------------------------------------------------------------- actions
Now(t) == t \in clock..Min(clock + 1, MaxClock)

RECURSIVE SumLen(_, _)
SumLen(f, S) ==
    IF S = {} THEN 0
    ELSE LET x == CHOOSE y \in S : TRUE IN Len(f[x]) + SumLen(f, S \ {x})

\* neither the store nor the record of appended turns outgrows MaxAdded
Room(k) ==
    /\ SumLen(added, Ids) + k <= MaxAdded
    /\ SumLen([id \in Ids |-> Get(history, id)], Ids) + k <= MaxAdded

\* what a read and a write come to under the file system's condition: a
\* write to a full disk leaves the file empty or cut short
ReadOutcomes == IF fs = "denied" THEN {"denied"} ELSE {"ok"}

WriteOutcomes ==
    CASE fs = "ok"     -> {"ok"}
      [] fs = "denied" -> {"denied"}
      [] fs = "full"   -> {"truncated", "partial"}

Load ==
    \E io \in ReadOutcomes :
        /\ history' = load(history, disk, io)
        /\ lastOp' = Op("load", None, NoCall, "none", "", io = "ok")
        /\ Track(history, history', NoTurns)
        /\ UNCHANGED <<max_history, disk, clock, fs, tasks, call_count, others>>

AddMessage ==
    \E id \in Ids, inp \in AddInputs, t \in 0..MaxClock, io \in WriteOutcomes :
        /\ Now(t)
        /\ Room(1)
        /\ clock' = t
        /\ history' = add_message(history, max_history, id, inp[1], inp[2], t)
        /\ disk' = save(history', disk, io)
        /\ lastOp' = Op("add_message", id, NoCall, "none", "", io = "ok")
        /\ Track(history, history', [NoTurns EXCEPT ![id] = <<Turn(inp[1], inp[2], t)>>])
        /\ UNCHANGED <<max_history, fs, tasks, call_count, others>>

Clear ==
    \E id \in Ids \cup {None}, io \in WriteOutcomes :
        /\ history' = clear(history, id)
        /\ disk' = save(history', disk, io)
        /\ lastOp' = Op("clear", id, NoCall, "none", "", io = "ok")
        /\ Track(history, history', NoTurns)
        /\ UNCHANGED <<max_history, clock, fs, tasks, call_count, others>>

\* a new process: HistoryManager() followed by initialize()
Restart ==
    \E io \in ReadOutcomes :
        /\ history' = load(<<>>, disk, io)
        /\ lastOp' = Op("restart", None, NoCall, "none", "", io = "ok")
        /\ Track(history, history', NoTurns)
        /\ UNCHANGED <<max_history, disk, clock, fs, tasks, call_count, others>>

Call(m, agent) ==
    [message |-> m, raised |-> agent.raised,
     reply |-> IF agent.raised THEN "" ELSE agent.data]

\* Context7Agent.chat when agent.run (or the MCP server context) raises
ChatError ==
    \E id \in Ids, m \in Messages :
        LET out == chat(history, max_history, disk, id, m, Raised, clock, clock, "ok", "ok") IN
        /\ history' = out.history
        /\ disk' = out.disk
        /\ lastOp' = Op("chat", id, Call(m, Raised), out.result.type, out.result.data, FALSE)
        /\ Track(history, history', NoTurns)
        /\ UNCHANGED <<max_history, clock, fs, tasks, call_count, others>>

\* Context7Agent.chat when agent.run returns a result whose str() is r
ChatComplete ==
    \E id \in Ids, m \in Messages, r \in Responses,
       t1 \in 0..MaxClock, t2 \in 0..MaxClock, io1 \in WriteOutcomes, io2 \in WriteOutcomes :
        LET out == chat(history, max_history, disk, id, m, Returned(r), t1, t2, io1, io2) IN
        /\ Now(t1) /\ t2 \in t1..Min(t1 + 1, MaxClock)
        /\ Room(2)
        /\ clock' = t2
        /\ history' = out.history
        /\ disk' = out.disk
        /\ lastOp' = Op("chat", id, Call(m, Returned(r)), out.result.type, out.result.data,
                        io2 = "ok")
        /\ Track(history, history',
                 [NoTurns EXCEPT ![id] = <<Turn("user", m, t1), Turn("assistant", r, t2)>>])
        /\ UNCHANGED <<max_history, fs, tasks, call_count, others>>

Next == Load \/ Restart \/ AddMessage \/ Clear \/ ChatError \/ ChatComplete

Spec == Init /\ [][Next]_vars

\* ------------------------------------------------------------- queries
\* get_messages and get_conversations on stores whose messages have every
\* length up to MaxText
Pad == "abcdefghijklmnopqrstuvwxyzABCDEFGHIJKLMNOPQRSTUVWXYZ0123456789"

Text(n) == SubSeq(Pad, 1, n)

QueryStores ==
    LET one == {add_message(<<>>, MaxN, id, "user", Text(n), 0) :
                    id \in Ids, n \in 0..MaxText}
        long == {add_message(<<>>, MaxN, id, "user", Text(MaxText), 0) : id \in Ids}
        two == {add_message(h, MaxN, id, "assistant", Text(n), MaxClock) :
                    h \in long, id \in Ids, n \in {0, SummaryLimit}}
    IN  one \cup two

QueryInit ==
    /\ history \in QueryStores
    /\ max_history = MaxN
    /\ disk = save(history, NoFile, "ok")
    /\ clock = MaxClock
    /\ lastOp = Op("init", None, NoCall, "none", "", FALSE)
    /\ added = NoTurns
    /\ tracked = {}
    /\ fs = "ok"
    /\ tasks = <<>>
    /\ call_count = 0
    /\ OthersNew

GetMessages ==
    \E id \in Ids :
        LET out == get_messages_call(history, id) IN
        /\ history' = out.history
        /\ lastOp' = Op("get_messages", id, NoCall, "none", out.result, FALSE)
        /\ UNCHANGED <<max_history, disk, clock, added, tracked, fs, tasks, call_count, others>>

GetConversations ==
    /\ lastOp' = Op("get_conversations", None, NoCall, "none",
                    get_conversations(history), FALSE)
    /\ UNCHANGED <<history, max_history, disk, clock, added, tracked, fs, tasks, call_count, others>>

QueryNext == GetMessages \/ GetConversations

QuerySpec == QueryInit /\ [][QueryNext]_vars

\* ---------------------------------------------------------- coroutines
\* add_message and chat as coroutines of one event loop: each runs without
\* interruption between two awaits, and the file operations of save (open,
\* write, close) run in the thread pool of aiofiles
Contents == <<"hi", "yo", "ok", "no">>

ChatIds == <<"c1", "c2", "c3", "c4">>

NewAdd(id, content) ==
    [kind |-> "add_message", id |-> id, todo |-> << <<"user", content>> >>,
     pc |-> "ready", snap |-> <<>>, result |-> "none"]

NewChat(id, message, reply) ==
    [kind |-> "chat", id |-> id,
     todo |-> << <<"user", message>>, <<"assistant", reply>> >>,
     pc |-> "calling", snap |-> <<>>, result |-> "none"]

Scenarios ==
    {[t \in 1..MaxTasks |-> NewAdd(ids[t], Contents[t])] : ids \in [1..MaxTasks -> Ids]}
        \cup {[t \in 1..MaxTasks |-> NewChat(ChatIds[t], "hi", Contents[t])]}

ConcInit ==
    /\ history = <<>>
    /\ max_history \in 1..MaxN
    /\ disk = NoFile
    /\ clock = 0
    /\ lastOp = Op("init", None, NoCall, "none", "", FALSE)
    /\ added = NoTurns
    /\ tracked = {}
    /\ fs = "ok"
    /\ tasks \in Scenarios
    /\ call_count = 0
    /\ OthersNew

\* await agent.run(...) returns
AgentReturns ==
    \E t \in DOMAIN tasks :
        /\ tasks[t].pc = "calling"
        /\ tasks' = [tasks EXCEPT ![t].pc = "ready"]
        /\ UNCHANGED <<history, max_history, disk, clock, lastOp, added, tracked, fs,
                       call_count, others>>

\* add_message putting the new turn in front of the conversation
Begin_front ==
    \E t \in DOMAIN tasks :
        /\ tasks[t].pc = "ready"
        /\ history' = Put(history, tasks[t].id,
                          <<Turn(tasks[t].todo[1][1], tasks[t].todo[1][2], clock)>>
                              \o Get(history, tasks[t].id))
        /\ tasks' = [tasks EXCEPT ![t].pc = "opening", ![t].todo = Tail(@)]
        /\ UNCHANGED <<max_history, disk, clock, lastOp, added, tracked, fs,
                       call_count, others>>

\* add_message up to the await in save: the turn is appended, the list cut;
\* the calls in flight together fall within one reading of the clock
Begin ==
    \E t \in DOMAIN tasks :
        /\ tasks[t].pc = "ready"
        /\ history' = add_message(history, max_history, tasks[t].id,
                                  tasks[t].todo[1][1], tasks[t].todo[1][2], clock)
        /\ tasks' = [tasks EXCEPT ![t].pc = "opening", ![t].todo = Tail(@)]
        /\ UNCHANGED <<max_history, disk, clock, lastOp, added, tracked, fs,
                       call_count, others>>

Open ==
    \E t \in DOMAIN tasks :
        /\ tasks[t].pc = "opening"
        /\ disk' = open_w(disk)
        /\ tasks' = [tasks EXCEPT ![t].pc = "opened"]
        /\ UNCHANGED <<history, max_history, clock, lastOp, added, tracked, fs,
                       call_count, others>>

\* f.write(json.dumps(self._history, indent=2)) into the buffer of f
Write ==
    \E t \in DOMAIN tasks :
        /\ tasks[t].pc = "opened"
        /\ tasks' = [tasks EXCEPT ![t].pc = "written", ![t].snap = Dumps(history)]
        /\ UNCHANGED <<history, max_history, disk, clock, lastOp, added, tracked, fs,
                       call_count, others>>

\* a chat that returns after its first add_message
Close_early ==
    \E t \in DOMAIN tasks :
        /\ tasks[t].pc = "written"
        /\ disk' = close(disk, tasks[t].snap, history)
        /\ tasks' = [tasks EXCEPT
                        ![t].pc = "done",
                        ![t].result = IF tasks[t].kind = "chat" THEN "complete"
                                      ELSE "returned"]
        /\ lastOp' = Op("save", tasks[t].id, NoCall, "none", tasks[t].snap, TRUE)
        /\ UNCHANGED <<history, max_history, clock, added, tracked, fs, call_count, others>>

\* leaving the async with: the file is closed, save and add_message return
Close ==
    \E t \in DOMAIN tasks :
        LET last == tasks[t].todo = <<>> IN
        /\ tasks[t].pc = "written"
        /\ disk' = close(disk, tasks[t].snap, history)
        /\ tasks' = [tasks EXCEPT
                        ![t].pc = IF last THEN "done" ELSE "ready",
                        ![t].result = IF ~last THEN "none"
                                      ELSE IF tasks[t].kind = "chat" THEN "complete"
                                      ELSE "returned"]
        /\ lastOp' = Op("save", tasks[t].id, NoCall, "none", tasks[t].snap, TRUE)
        /\ UNCHANGED <<history, max_history, clock, added, tracked, fs, call_count, others>>

ConcNext == AgentReturns \/ Begin \/ Open \/ Write \/ Close

ConcSpec == ConcInit /\ [][ConcNext]_vars

\* ------------------------------------------ chats on one conversation
\* chat calls on the same conversation id in flight together, with or
\* without a clear of that id; max_history is large enough to evict nothing.
\* A call can be overtaken wherever it awaits: in agent.run and in each save
Questions == <<"q1", "q2", "q3", "q4">>

SharedId == "c1"

NewChatCall(message, reply) ==
    [kind |-> "chat", id |-> SharedId,
     todo |-> << <<"user", message>>, <<"assistant", reply>> >>,
     pc |-> "new", snap |-> <<>>, result |-> "none", message_history |-> <<>>]

NewClear ==
    [kind |-> "clear", id |-> SharedId, todo |-> <<>>,
     pc |-> "new", snap |-> <<>>, result |-> "none", message_history |-> <<>>]

SameIdScenarios ==
    { [t \in 1..MaxTasks |-> NewChatCall(Questions[t], Contents[t])],
      <<NewChatCall(Questions[1], Contents[1]), NewClear>> }

SameIdInit ==
    /\ history = <<>>
    /\ max_history = 2 * MaxTasks
    /\ disk = NoFile
    /\ clock = 0
    /\ lastOp = Op("init", None, NoCall, "none", "", FALSE)
    /\ added = NoTurns
    /\ tracked = {}
    /\ fs = "ok"
    /\ tasks \in SameIdScenarios
    /\ call_count = 0
    /\ OthersNew

\* chat that records the user's message before it reads the history
StartChat_eager ==
    \E t \in DOMAIN tasks :
        LET h1 == add_message(history, max_history, tasks[t].id, "user",
                              tasks[t].todo[1][2], clock) IN
        /\ tasks[t].kind = "chat" /\ tasks[t].pc = "new"
        /\ history' = h1
        /\ tasks' = [tasks EXCEPT ![t].pc = "calling",
                                  ![t].message_history = get_messages(h1, tasks[t].id)]
        /\ UNCHANGED <<max_history, disk, clock, lastOp, added, tracked, fs,
                       call_count, others>>

\* chat up to its first await: message_history is read, the agent is called
StartChat ==
    \E t \in DOMAIN tasks :
        /\ tasks[t].kind = "chat" /\ tasks[t].pc = "new"
        /\ tasks' = [tasks EXCEPT ![t].pc = "calling",
                                  ![t].message_history = get_messages(history, tasks[t].id)]
        /\ UNCHANGED <<history, max_history, disk, clock, lastOp, added, tracked, fs,
                       call_count, others>>

\* clear up to the await in save
StartClear ==
    \E t \in DOMAIN tasks :
        /\ tasks[t].kind = "clear" /\ tasks[t].pc = "new"
        /\ history' = clear(history, tasks[t].id)
        /\ tasks' = [tasks EXCEPT ![t].pc = "opening"]
        /\ UNCHANGED <<max_history, disk, clock, lastOp, added, tracked, fs,
                       call_count, others>>

\* the save a call was suspended in is over and the call goes on; the save
\* is taken as one step here, its file operations are followed in ConcSpec
Saved ==
    \E t \in DOMAIN tasks :
        LET last == tasks[t].todo = <<>> IN
        /\ tasks[t].pc = "opening"
        /\ disk' = save(history, disk, "ok")
        /\ tasks' = [tasks EXCEPT
                        ![t].pc = IF last THEN "done" ELSE "ready",
                        ![t].result = IF ~last THEN "none"
                                      ELSE IF tasks[t].kind = "chat" THEN "complete"
                                      ELSE "returned"]
        /\ lastOp' = Op("save", tasks[t].id, NoCall, "none", Dumps(history), TRUE)
        /\ UNCHANGED <<history, max_history, clock, added, tracked, fs, call_count, others>>

SameIdNext == StartChat \/ StartClear \/ AgentReturns \/ Begin \/ Saved

SameIdSpec == SameIdInit /\ [][SameIdNext]_vars

\* ---------------------------------------------------- chats in sequence
\* chat calls issued one after the other, each awaited before the next, on
\* conversations that start empty, under bounds of either parity
ExchangeBounds == 2..(2 * MaxN)

ExchangeInit ==
    /\ history = <<>>
    /\ max_history \in ExchangeBounds
    /\ disk = NoFile
    /\ clock = 0
    /\ lastOp = Op("init", None, NoCall, "none", "", FALSE)
    /\ added = NoTurns
    /\ tracked = Ids
    /\ fs = "ok"
    /\ tasks = <<>>
    /\ call_count = 0
    /\ OthersNew

ExchangeError ==
    \E id \in Ids, m \in Messages :
        LET out == chat(history, max_history, disk, id, m, Raised, clock, clock, "ok", "ok") IN
        /\ history' = out.history
        /\ disk' = out.disk
        /\ lastOp' = Op("chat", id, Call(m, Raised), out.result.type, out.result.data, FALSE)
        /\ Track(history, history', NoTurns)
        /\ UNCHANGED <<max_history, clock, fs, tasks, call_count, others>>

ExchangeComplete ==
    \E id \in Ids, m \in Messages, r \in Responses, t1 \in 0..MaxClock, t2 \in 0..MaxClock :
        LET out == chat(history, max_history, disk, id, m, Returned(r), t1, t2, "ok", "ok") IN
        /\ Now(t1) /\ t2 \in t1..Min(t1 + 1, MaxClock)
        /\ Len(added[id]) + 2 <= 2 * MaxExchanges
        /\ clock' = t2
        /\ history' = out.history
        /\ disk' = out.disk
        /\ lastOp' = Op("chat", id, Call(m, Returned(r)), out.result.type, out.result.data,
                        TRUE)
        /\ Track(history, history',
                 [NoTurns EXCEPT ![id] = <<Turn("user", m, t1), Turn("assistant", r, t2)>>])
        /\ UNCHANGED <<max_history, fs, tasks, call_count, others>>

ExchangeNext == ExchangeError \/ ExchangeComplete

ExchangeSpec == ExchangeInit /\ [][ExchangeNext]_vars

\* ------------------------------------------------- the file's directory
\* save on a HistoryManager whose history_path is config.history_file or was
\* assigned another path, with either directory present or not
\* save: mkdir of config.history_file.parent, then open(self.history_path, 'w'),
\* which raises when the directory of history_path is missing
save_at(h, d, path, ds) ==
    LET made == ds \cup {ConfigPath.dir} IN
    [dirs |-> made,
     disk |-> IF path.dir \in made THEN save(h, d, "ok") ELSE save(h, d, "denied")]

PathInit ==
    /\ history = <<>>
    /\ max_history = MaxN
    /\ disk = NoFile
    /\ clock = 0
    /\ lastOp = Op("init", None, NoCall, "none", "", FALSE)
    /\ added = NoTurns
    /\ tracked = Ids
    /\ fs = "ok"
    /\ tasks = <<>>
    /\ call_count = 0
    /\ dirs \in SUBSET {ConfigPath.dir, OtherPath.dir}
    /\ history_path \in {ConfigPath, OtherPath}
    /\ cli = NewCli
    /\ session_manager = NewSessionManager
    /\ conversation_history = NewConversationHistory

PathAddMessage ==
    \E id \in Ids, inp \in AddInputs, t \in 0..MaxClock :
        LET h1 == add_message(history, max_history, id, inp[1], inp[2], t)
            out == save_at(h1, disk, history_path, dirs)
        IN  /\ Now(t)
            /\ Room(1)
            /\ clock' = t
            /\ history' = h1
            /\ disk' = out.disk
            /\ dirs' = out.dirs
            /\ lastOp' = Op("add_message", id, NoCall, "none", "", history_path.dir \in out.dirs)
            /\ Track(history, history', [NoTurns EXCEPT ![id] = <<Turn(inp[1], inp[2], t)>>])
            /\ UNCHANGED <<max_history, fs, tasks, call_count, history_path, cli,
                           session_manager, conversation_history>>

PathClear ==
    \E id \in Ids \cup {None} :
        LET h1 == clear(history, id)
            out == save_at(h1, disk, history_path, dirs)
        IN  /\ history' = h1
            /\ disk' = out.disk
            /\ dirs' = out.dirs
            /\ lastOp' = Op("clear", id, NoCall, "none", "", history_path.dir \in out.dirs)
            /\ Track(history, history', NoTurns)
            /\ UNCHANGED <<max_history, clock, fs, tasks, call_count, history_path, cli,
                           session_manager, conversation_history>>

PathNext == PathAddMessage \/ PathClear

PathSpec == PathInit /\ [][PathNext]_vars

\* ------------------------------------------------------------ the CLI
\* str methods used by the main loop
Spaces == {" ", "\t", "\n"}

UpperCase == "ABCDEFGHIJKLMNOPQRSTUVWXYZ"

LowerCase == "abcdefghijklmnopqrstuvwxyz"

Char(s, i) == SubSeq(s, i, i)

LowerChar(c) ==
    IF \E i \in 1..Len(UpperCase) : Char(UpperCase, i) = c
    THEN Char(LowerCase, CHOOSE i \in 1..Len(UpperCase) : Char(UpperCase, i) = c)
    ELSE c

RECURSIVE lower(_)
lower(s) == IF s = "" THEN "" ELSE LowerChar(Char(s, 1)) \o lower(SubSeq(s, 2, Len(s)))

RECURSIVE lstrip(_)
lstrip(s) ==
    IF s # "" /\ Char(s, 1) \in Spaces THEN lstrip(SubSeq(s, 2, Len(s))) ELSE s

RECURSIVE rstrip(_)
rstrip(s) ==
    IF s # "" /\ Char(s, Len(s)) \in Spaces THEN rstrip(SubSeq(s, 1, Len(s) - 1)) ELSE s

strip(s) == rstrip(lstrip(s))

startswith(s, prefix) ==
    Len(s) >= Len(prefix) /\ SubSeq(s, 1, Len(prefix)) = prefix

\* s.split()[0] of a string that has a first word
RECURSIVE FirstWord(_)
FirstWord(s) ==
    IF s = "" \/ Char(s, 1) \in Spaces THEN ""
    ELSE Char(s, 1) \o FirstWord(SubSeq(s, 2, Len(s)))

\* a main loop that strips the line before it looks for the slash
IsCommand_stripped(user_input) == startswith(strip(user_input), "/")

\* user_input.lower().startswith('/')
IsCommand(user_input) == startswith(lower(user_input), "/")

\* what _handle_command leaves behind: the CLI object and the store
Handled(c, h, command) ==
    [cli |-> [c EXCEPT !.commands = Append(@, command)], history |-> h]

\* _handle_command leaving is_running alone
handle_command_stay(c, h, user_input) ==
    LET command == lower(FirstWord(strip(user_input))) IN
    IF command = "/clear" THEN Handled(c, clear(h, c.current_conversation), command)
    ELSE Handled(c, h, command)

\* _handle_command calling clear_history() without the conversation id
handle_command_all(c, h, user_input) ==
    LET command == lower(FirstWord(strip(user_input))) IN
    IF command = "/exit" THEN Handled([c EXCEPT !.is_running = FALSE], h, command)
    ELSE IF command = "/clear" THEN Handled(c, clear(h, None), command)
    ELSE Handled(c, h, command)

\* _handle_command: /help, /history, /theme and unknown commands only print
handle_command(c, h, user_input) ==
    LET command == lower(FirstWord(strip(user_input))) IN
    IF command = "/exit" THEN Handled([c EXCEPT !.is_running = FALSE], h, command)
    ELSE IF command = "/clear" THEN Handled(c, clear(h, c.current_conversation), command)
    ELSE Handled(c, h, command)

CliInputs == {"", "  ", "hi", " /exit", "/exit", "/EXIT now", "/clear", "/help", "/bogus"}

CliStores ==
    { <<>>,
      << [id |-> "default", msgs |-> << Turn("user", "hi", 0), Turn("assistant", "ok", 0) >>],
         [id |-> "c1", msgs |-> << Turn("user", "hi", 0) >>] >> }

\* start(): the agent is initialized from the file, then the loop runs
CliInit ==
    /\ history \in CliStores
    /\ max_history = MaxN
    /\ disk = save(history, NoFile, "ok")
    /\ clock = 0
    /\ lastOp = Op("init", None, NoCall, "none", "", FALSE)
    /\ added = NoTurns
    /\ tracked = {}
    /\ fs = "ok"
    /\ tasks = <<>>
    /\ call_count = 0
    /\ OthersNew

\* one pass of the while loop whose input is blank
ReadBlank ==
    \E user_input \in CliInputs :
        /\ cli.pc = "loop" /\ cli.is_running /\ cli.reads < MaxInputs
        /\ strip(user_input) = ""
        /\ cli' = [cli EXCEPT !.reads = @ + 1]
        /\ lastOp' = Op("input", cli.current_conversation, NoCall, "blank", user_input, FALSE)
        /\ UNCHANGED <<history, max_history, disk, clock, added, tracked, fs, tasks,
                       call_count, dirs, history_path, session_manager,
                       conversation_history>>

\* one pass whose input goes to _handle_command
ReadCommand ==
    \E user_input \in CliInputs :
        LET out == handle_command([cli EXCEPT !.reads = @ + 1], history, user_input) IN
        /\ cli.pc = "loop" /\ cli.is_running /\ cli.reads < MaxInputs
        /\ strip(user_input) # "" /\ IsCommand(user_input)
        /\ cli' = out.cli
        /\ history' = out.history
        /\ disk' = IF out.cli.commands[Len(out.cli.commands)] = "/clear"
                   THEN save(out.history, disk, "ok") ELSE disk
        /\ lastOp' = Op("input", cli.current_conversation, NoCall, "command", user_input,
                        FALSE)
        /\ UNCHANGED <<max_history, clock, added, tracked, fs, tasks, call_count, dirs,
                       history_path, session_manager, conversation_history>>

\* one pass whose input goes to _process_message
ReadMessage ==
    \E user_input \in CliInputs, agent \in {Raised} \cup {Returned(r) : r \in Responses} :
        LET out == chat(history, max_history, disk, cli.current_conversation, user_input,
                        agent, clock, clock, "ok", "ok") IN
        /\ cli.pc = "loop" /\ cli.is_running /\ cli.reads < MaxInputs
        /\ strip(user_input) # "" /\ ~IsCommand(user_input)
        /\ cli' = [cli EXCEPT !.reads = @ + 1,
                              !.forwarded = Append(@, <<user_input, cli.current_conversation>>)]
        /\ history' = out.history
        /\ disk' = out.disk
        /\ lastOp' = Op("input", cli.current_conversation, Call(user_input, agent),
                        "message", user_input, FALSE)
        /\ UNCHANGED <<max_history, clock, added, tracked, fs, tasks, call_count, dirs,
                       history_path, session_manager, conversation_history>>

\* while self.is_running fails
LoopExit ==
    /\ cli.pc = "loop" /\ ~cli.is_running
    /\ cli' = [cli EXCEPT !.pc = "stopped"]
    /\ UNCHANGED <<history, max_history, disk, clock, lastOp, added, tracked, fs, tasks,
                   call_count, dirs, history_path, session_manager, conversation_history>>

CliNext == ReadBlank \/ ReadCommand \/ ReadMessage \/ LoopExit

CliSpec == CliInit /\ [][CliNext]_vars

\* ------------------------------------------- the earlier history module
\* SessionManager and ConversationHistory of src.orig/history.py. A session
\* object is known by its id (uuid4 never repeats), so current_session holds
\* the id of the object it refers to
SessionIds == <<"s1", "s2", "s3", "s4">>

Session(id, name, now) == [id |-> id, name |-> name, last_activity |-> now]

\* what load_json_file(config.sessions_file, ...) may return at the first load
SessionFiles == {<<>>, <<Session("s0", "old", 0)>>}

MessageFiles == {<<>>, <<[role |-> "assistant", content |-> 0]>>}

Limits == 0..(MaxMessages + 1)

\* load(): reads the file once per object
sm_load(sm, file) ==
    IF sm.loaded THEN sm ELSE [sm EXCEPT !.sessions = file, !.loaded = TRUE]

SessionIndexes(sm, session_id) ==
    {i \in 1..Len(sm.sessions) : sm.sessions[i].id = session_id}

create_session(sm, file, name, now) ==
    LET sm1 == sm_load(sm, file)
        session == Session(SessionIds[sm1.created + 1], name, now)
    IN  [sm |-> [sm1 EXCEPT !.sessions = Append(@, session),
                            !.current_session = session.id,
                            !.created = @ + 1],
         result |-> session.id]

switch_session(sm, file, session_id, now) ==
    LET sm1 == sm_load(sm, file)
        found == SessionIndexes(sm1, session_id)
    IN  IF found = {} THEN [sm |-> sm1, result |-> None]
        ELSE LET i == CHOOSE j \in found : \A k \in found : j <= k
             IN  [sm |-> [sm1 EXCEPT !.sessions[i].last_activity = now,
                                     !.current_session = session_id],
                  result |-> session_id]

\* delete_session that leaves current_session alone
delete_session_keep(sm, file, session_id) ==
    LET sm1 == sm_load(sm, file)
        kept == SelectSeq(sm1.sessions, LAMBDA s : s.id # session_id)
    IN  IF Len(kept) < Len(sm1.sessions)
        THEN [sm |-> [sm1 EXCEPT !.sessions = kept], result |-> "True"]
        ELSE [sm |-> [sm1 EXCEPT !.sessions = kept], result |-> "False"]

delete_session(sm, file, session_id) ==
    LET sm1 == sm_load(sm, file)
        kept == SelectSeq(sm1.sessions, LAMBDA s : s.id # session_id)
    IN  IF Len(kept) < Len(sm1.sessions)
        THEN [sm |-> [sm1 EXCEPT
                        !.sessions = kept,
                        !.current_session =
                            IF @ # None /\ @ = session_id THEN None ELSE @],
              result |-> "True"]
        ELSE [sm |-> [sm1 EXCEPT !.sessions = kept], result |-> "False"]

ch_load(ch, file) ==
    IF ch.loaded THEN ch ELSE [ch EXCEPT !.messages = file, !.loaded = TRUE]

legacy_add_message(ch, file, role, content) ==
    LET ch1 == ch_load(ch, file)
    IN  [ch1 EXCEPT !.messages = Append(@, [role |-> role, content |-> content])]

\* self.messages[-limit:] if len(self.messages) > limit else self.messages
get_recent_messages(ch, file, limit) ==
    LET ch1 == ch_load(ch, file)
    IN  [ch1 EXCEPT !.limit = limit,
                    !.result = IF Len(ch1.messages) > limit
                               THEN PySliceFrom(ch1.messages, 0 - limit)
                               ELSE ch1.messages]

LegacyInit ==
    /\ history = <<>>
    /\ max_history = MaxN
    /\ disk = NoFile
    /\ clock = 0
    /\ lastOp = Op("init", None, NoCall, "none", "", FALSE)
    /\ added = NoTurns
    /\ tracked = {}
    /\ fs = "ok"
    /\ tasks = <<>>
    /\ call_count = 0
    /\ OthersNew

SessionArgs == {"s0"} \cup {SessionIds[i] : i \in 1..MaxSessions} \cup {"nobody"}

CreateSession ==
    \E file \in SessionFiles, t \in 0..MaxClock :
        LET out == create_session(session_manager, file, "new", t) IN
        /\ Now(t)
        /\ session_manager.created < MaxSessions
        /\ clock' = t
        /\ session_manager' = out.sm
        /\ lastOp' = Op("create_session", None, NoCall, out.result, "", FALSE)
        /\ UNCHANGED <<history, max_history, disk, added, tracked, fs, tasks, call_count,
                       dirs, history_path, cli, conversation_history>>

SwitchSession ==
    \E file \in SessionFiles, session_id \in SessionArgs, t \in 0..MaxClock :
        LET out == switch_session(session_manager, file, session_id, t) IN
        /\ Now(t)
        /\ clock' = t
        /\ session_manager' = out.sm
        /\ lastOp' = Op("switch_session", session_id, NoCall, out.result, "", FALSE)
        /\ UNCHANGED <<history, max_history, disk, added, tracked, fs, tasks, call_count,
                       dirs, history_path, cli, conversation_history>>

DeleteSession ==
    \E file \in SessionFiles, session_id \in SessionArgs :
        LET out == delete_session(session_manager, file, session_id) IN
        /\ session_manager' = out.sm
        /\ lastOp' = Op("delete_session", session_id, NoCall, out.result, "", FALSE)
        /\ UNCHANGED <<history, max_history, disk, clock, added, tracked, fs, tasks,
                       call_count, dirs, history_path, cli, conversation_history>>

LegacyAddMessage ==
    \E file \in MessageFiles, role \in {"user", "assistant"} :
        /\ Len(conversation_history.messages) < MaxMessages
        /\ conversation_history' =
              legacy_add_message(conversation_history, file, role,
                                 Len(ch_load(conversation_history, file).messages) + 1)
        /\ lastOp' = Op("legacy_add_message", None, NoCall, "none", "", FALSE)
        /\ UNCHANGED <<history, max_history, disk, clock, added, tracked, fs, tasks,
                       call_count, dirs, history_path, cli, session_manager>>

GetRecentMessages ==
    \E file \in MessageFiles, limit \in Limits :
        /\ conversation_history' = get_recent_messages(conversation_history, file, limit)
        /\ lastOp' = Op("get_recent_messages", None, NoCall, "none", "", FALSE)
        /\ UNCHANGED <<history, max_history, disk, clock, added, tracked, fs, tasks,
                       call_count, dirs, history_path, cli, session_manager>>

SessionNext == CreateSession \/ SwitchSession \/ DeleteSession

SessionSpec == LegacyInit /\ [][SessionNext]_vars

RecentNext == LegacyAddMessage \/ GetRecentMessages

RecentSpec == LegacyInit /\ [][RecentNext]_vars

\* ------------------------------------------------------------- debounce
\* debounced = await debounce(func, delay), called MaxCallers times with
\* func the counting function of test_debounce; time is counted in ticks
Delay == 1

FuncResult == "result"

NewCaller == [kind |-> "debounced", pc |-> "new", start |-> 0, result |-> "none"]

DebounceInit ==
    /\ history = <<>>
    /\ max_history = MaxN
    /\ disk = NoFile
    /\ clock = 0
    /\ lastOp = Op("init", None, NoCall, "none", "", FALSE)
    /\ added = NoTurns
    /\ tracked = {}
    /\ fs = "ok"
    /\ tasks = [t \in 1..MaxCallers |-> NewCaller]
    /\ call_count = 0
    /\ OthersNew

Tick ==
    /\ clock < MaxClock + Delay
    /\ clock' = clock + 1
    /\ UNCHANGED <<history, max_history, disk, lastOp, added, tracked, fs, tasks,
                   call_count, others>>

\* debounced(...) up to its await: asyncio.sleep(delay) starts
CallDebounced ==
    \E t \in DOMAIN tasks :
        /\ tasks[t].pc = "new"
        /\ clock <= MaxClock
        /\ tasks' = [tasks EXCEPT ![t].pc = "sleeping", ![t].start = clock]
        /\ UNCHANGED <<history, max_history, disk, clock, lastOp, added, tracked, fs,
                       call_count, others>>

\* the sleep is over: return await func(*args, **kwargs)
Wake ==
    \E t \in DOMAIN tasks :
        /\ tasks[t].pc = "sleeping"
        /\ clock >= tasks[t].start + Delay
        /\ call_count' = call_count + 1
        /\ tasks' = [tasks EXCEPT ![t].pc = "done", ![t].result = FuncResult]
        /\ UNCHANGED <<history, max_history, disk, clock, lastOp, added, tracked, fs,
                       others>>

DebounceNext == Tick \/ CallDebounced \/ Wake

DebounceSpec == DebounceInit /\ [][DebounceNext]_vars

\* ================================================================ claims
LastN(s, n) == SubSeq(s, Len(s) - n + 1, Len(s))

Others(id) == Ids \ {id}

SameConversation(id) ==
    /\ Has(history', id) = Has(history, id)
    /\ Get(history', id) = Get(history, id)

\* C1: with max_history = N >= 1, a conversation that started empty and has
\* had more than N turns appended holds exactly the last N of them, in the
\* order in which they were appended.
C1_FifoBound ==
    \A id \in tracked :
        (max_history >= 1 /\ Len(added[id]) > max_history)
            => Get(history, id) = LastN(added[id], max_history)

C1_Witness ==
    \E id \in tracked :
        /\ max_history = 2 /\ Len(added[id]) = 3
        /\ lastOp.op = "add_message" /\ lastOp.id = id
        /\ added[id][1] # added[id][3]

\* C2: a chat whose agent call raises returns type "error" and leaves the
\* in-memory store and the file exactly as they were.
C2_ErrorNonPersistent ==
    [][(lastOp'.op = "chat" /\ lastOp'.call.raised)
          => /\ lastOp'.result = "error"
             /\ history' = history
             /\ disk' = disk]_vars

C2_Witness ==
    /\ lastOp.op = "chat" /\ lastOp.call.raised /\ lastOp.result = "error"
    /\ Get(history, lastOp.id) # <<>>
    /\ Len(history) = 2

\* C3: a chat whose agent call returns appends the user turn with the
\* original message and then the assistant turn with the response text to the
\* conversation, and returns type "complete" with the response text; with
\* max_history >= 2 these are the last two turns, after a suffix of the old
\* ones, and with max_history = 1 the assistant turn alone remains.
C3_CompleteAppends ==
    [][(lastOp'.op = "chat" /\ ~lastOp'.call.raised)
          => LET id == lastOp'.id
                 old == Get(history, id)
                 new == Get(history', id)
                 k == Len(new)
             IN  /\ lastOp'.result = "complete"
                 /\ lastOp'.data = lastOp'.call.reply
                 /\ max_history >= 1 =>
                       /\ k >= 1
                       /\ new[k].role = "assistant"
                       /\ new[k].content = lastOp'.call.reply
                 /\ max_history >= 2 =>
                       /\ k >= 2
                       /\ new[k - 1].role = "user"
                       /\ new[k - 1].content = lastOp'.call.message
                       /\ new[k - 1].timestamp <= new[k].timestamp
                       /\ k - 2 <= Len(old)
                       /\ SubSeq(new, 1, k - 2) = LastN(old, k - 2)
                 /\ max_history = 1 => k = 1]_vars

C3_Witness ==
    /\ lastOp.op = "chat" /\ lastOp.result = "complete"
    /\ max_history = 2
    /\ Len(Get(history, lastOp.id)) = 2
    /\ Len(added[lastOp.id]) = 3

\* C4: in every reachable state every conversation of the in-memory store
\* has at most max_history turns (max_history being non-negative).
C4_LengthBound ==
    max_history >= 0 =>
        \A i \in 1..Len(history) : Len(history[i].msgs) <= max_history

\* what a reader of the file finds in it
OnDisk(h) == disk.exists /\ disk.text = "json" /\ Loads(disk.doc) = h

Mutators == {"add_message", "clear"}

\* C5 as stated (for a positive max_history): whenever add_message or clear
\* has returned, the file holds exactly the in-memory store.
C5_DiskEqualsMemory ==
    (max_history >= 1 /\ lastOp.op \in Mutators) => OnDisk(history)

\* C5 as amended: whenever add_message or clear has returned and its save did
\* not fail, the file holds exactly the in-memory store.
C5_DiskEqualsMemoryIfSaved ==
    (lastOp.op \in Mutators /\ lastOp.saved) => OnDisk(history)

C5_Witness ==
    /\ lastOp.op = "add_message" /\ lastOp.saved
    /\ Len(history) = 2
    /\ clock = 1
    /\ OnDisk(history)

\* C6: a store written by save() is reproduced exactly by load() in a fresh
\* HistoryManager on the same file: when a new process initializes right
\* after a call whose save succeeded, its store equals the one that was
\* saved, and get_messages returns the same turns for every id.
C6_RoundTrip ==
    [][(lastOp'.op = "restart" /\ lastOp'.saved
            /\ lastOp.op \in Mutators \cup {"chat"} /\ lastOp.saved)
          => /\ history' = history
             /\ \A id \in Ids : get_messages(history', id) = get_messages(history, id)]_vars

C6_Witness ==
    /\ lastOp.op = "restart" /\ lastOp.saved
    /\ Len(history) = 2
    /\ \E id \in Ids : Len(Get(history, id)) = 2 /\ Get(history, id)[2].timestamp = 1
    /\ OnDisk(history)

\* C7: add_message on one conversation changes neither the turns nor the
\* presence of any other conversation, eviction included.
C7_Isolation ==
    [][lastOp'.op = "add_message"
          => \A b \in Others(lastOp'.id) : SameConversation(b)]_vars

C7_Witness ==
    /\ lastOp.op = "add_message"
    /\ lastOp.id \in tracked
    /\ max_history = 1
    /\ Len(added[lastOp.id]) = 2
    /\ \E b \in Others(lastOp.id) : Len(Get(history, b)) = 1

\* C8 (for a positive max_history): clear(id) with an id that is in the store
\* removes that conversation, whatever string the id is, and leaves the other
\* conversations unchanged.
C8_ClearRemoves ==
    [][(max_history >= 1 /\ lastOp'.op = "clear" /\ lastOp'.id # None
            /\ Has(history, lastOp'.id))
          => /\ ~Has(history', lastOp'.id)
             /\ get_messages(history', lastOp'.id) = <<>>
             /\ \A b \in Others(lastOp'.id) : SameConversation(b)]_vars

\* C9: clear(id) with an id that is not in the store changes no conversation
\* (so repeating it changes nothing either), and clear() without an argument
\* leaves the store without conversations.
C9_IdempotentClear ==
    [][lastOp'.op = "clear"
          => /\ (lastOp'.id # None /\ ~Has(history, lastOp'.id)) => history' = history
             /\ lastOp'.id = None => history' = <<>>]_vars

C9_Witness ==
    /\ lastOp.op = "clear"
    /\ lastOp.id \in Ids /\ ~Has(history, lastOp.id)
    /\ history # <<>>
    /\ Len(added[CHOOSE b \in Ids : Has(history, b)]) >= 1

\* C10: with max_history <= 0 the target conversation is empty after every
\* add_message.
C10_ZeroBoundEmpty ==
    (max_history <= 0 /\ lastOp.op = "add_message")
        => Get(history, lastOp.id) = <<>>

ListedIds(h) == LET xs == get_conversations(h) IN {xs[i].id : i \in 1..Len(xs)}

\* C12: get_conversations returns exactly one summary for every conversation
\* with at least one turn and none for a conversation without turns, and the
\* message_count of a summary is the number of turns stored for its id.
C12_OneSummaryEach ==
    LET xs == get_conversations(history) IN
    /\ ListedIds(history) = {id \in Keys(history) : Get(history, id) # <<>>}
    /\ \A i, j \in 1..Len(xs) : xs[i].id = xs[j].id => i = j
    /\ \A i \in 1..Len(xs) : xs[i].message_count = Len(Get(history, xs[i].id))

C12_Witness ==
    /\ Len(history) = 2
    /\ Len(get_conversations(history)) = 1
    /\ get_conversations(history)[1].message_count = 2

LastTs(h, id) == Get(h, id)[Len(Get(h, id))].timestamp

\* from an empty store: add_message(a, user, .), add_message(a, assistant, .),
\* add_message(b, user, .), nothing else stored
Scenario(a, b) ==
    /\ max_history >= 2
    /\ lastOp.op = "add_message" /\ lastOp.id = b
    /\ {a, b} \subseteq tracked
    /\ Len(history) = 2 /\ history[1].id = a /\ history[2].id = b
    /\ Len(added[a]) = 2 /\ added[a][1].role = "user" /\ added[a][2].role = "assistant"
    /\ Len(added[b]) = 1 /\ added[b][1].role = "user"

LastContent(h, id) == Get(h, id)[Len(Get(h, id))].content

\* C11 as stated: get_conversations reports a last message of more than 50
\* characters as its first 47 characters followed by "..." (50 in total),
\* and one of at most 50 characters unmodified.
C11_Truncated47 ==
    lastOp.op = "get_conversations" =>
        \A i \in 1..Len(lastOp.data) :
            LET m == LastContent(history, lastOp.data[i].id)
                shown == lastOp.data[i].last_message
            IN  /\ Len(m) > 50 => (shown = SubSeq(m, 1, 47) \o "..." /\ Len(shown) = 50)
                /\ Len(m) <= 50 => shown = m

\* C11 as amended: a last message of more than 50 characters is reported as
\* its first 50 characters followed by "..." (53 in total), and one of at most
\* 50 characters unmodified.
C11_Truncated50 ==
    lastOp.op = "get_conversations" =>
        \A i \in 1..Len(lastOp.data) :
            LET m == LastContent(history, lastOp.data[i].id)
                shown == lastOp.data[i].last_message
            IN  /\ Len(m) > 50 => (shown = SubSeq(m, 1, 50) \o "..." /\ Len(shown) = 53)
                /\ Len(m) <= 50 => shown = m

C11_Witness ==
    /\ lastOp.op = "get_conversations"
    /\ \E i \in 1..Len(lastOp.data) :
          /\ Len(LastContent(history, lastOp.data[i].id)) = 51
          /\ Len(lastOp.data[i].last_message) = 53

\* C17: get_messages(id) returns the turns of the conversation in stored
\* order as records of role and content only, returns the empty sequence for
\* an id that is not in the store, and changes neither the in-memory store
\* (no entry appears for a missing id) nor the file.
C17_PureRead ==
    [][lastOp'.op = "get_messages"
          => LET msgs == Get(history, lastOp'.id)
                 got == lastOp'.data
             IN  /\ history' = history
                 /\ disk' = disk
                 /\ Has(history', lastOp'.id) = Has(history, lastOp'.id)
                 /\ Len(got) = Len(msgs)
                 /\ \A i \in 1..Len(got) :
                       /\ DOMAIN got[i] = {"role", "content"}
                       /\ got[i].role = msgs[i].role
                       /\ got[i].content = msgs[i].content
                 /\ ~Has(history, lastOp'.id) => got = <<>>]_vars

C17_Witness ==
    /\ lastOp.op = "get_messages"
    /\ lastOp.data = <<>>
    /\ ~Has(history, lastOp.id)
    /\ \E b \in Others(lastOp.id) : Len(Get(history, b)) = 2

\* C14 (for a positive max_history): load() on a file that exists and whose content is empty or is not
\* JSON returns normally and leaves the in-memory store an empty mapping.
C14_RecoversEmpty ==
    [][(max_history >= 1 /\ lastOp'.op = "load" /\ disk.exists
            /\ disk.text \in {"empty", "notjson"})
          => history' = <<>>]_vars

\* C15 (for a positive max_history): whatever the store held before, after load() it equals the mapping in
\* the file when the file was read, and the empty mapping when the file does
\* not exist.
C15_LoadOverwrites ==
    [][(max_history >= 1 /\ lastOp'.op = "load")
          => /\ (disk.exists /\ disk.text = "json" /\ lastOp'.saved)
                    => history' = Loads(disk.doc)
             /\ ~disk.exists => history' = <<>>]_vars

\* C16: when every write of the file fails, add_message, clear and a chat
\* whose agent call succeeded still return normally with the mutation applied
\* to the in-memory store, which get_messages then reports, and the chat
\* returns type "complete".
C16_SaveFailureSwallowed ==
    [][(fs # "ok" /\ ~lastOp'.saved)
          => LET id == lastOp'.id
                 new == Get(history', id)
                 got == get_messages(history', id)
                 k == Len(new)
             IN  /\ (lastOp'.op = "add_message" /\ max_history >= 1 /\ id \in tracked')
                       => /\ k >= 1
                          /\ new[k] = added'[id][Len(added'[id])]
                          /\ got[k].content = new[k].content
                 /\ (lastOp'.op = "clear" /\ id = None) => history' = <<>>
                 /\ (lastOp'.op = "clear" /\ id # None /\ Truthy(id))
                       => (~Has(history', id) /\ got = <<>>)
                 /\ (lastOp'.op = "chat" /\ ~lastOp'.call.raised)
                       => /\ lastOp'.result = "complete"
                          /\ max_history >= 1
                                => (k >= 1 /\ got[k].role = "assistant"
                                           /\ got[k].content = lastOp'.call.reply)
                          /\ max_history >= 2
                                => (k >= 2 /\ got[k - 1].role = "user"
                                           /\ got[k - 1].content = lastOp'.call.message)]_vars

C16_Witness ==
    /\ fs = "denied" /\ ~disk.exists
    /\ lastOp.op = "chat" /\ lastOp.result = "complete" /\ ~lastOp.saved
    /\ Len(get_messages(history, lastOp.id)) = 2

AllDone == tasks # <<>> /\ \A t \in DOMAIN tasks : tasks[t].pc = "done"

AllOfKind(kind) == \A t \in DOMAIN tasks : tasks[t].kind = kind

FileOpen == \E t \in DOMAIN tasks : tasks[t].pc \in {"opened", "written"}

Stored(h, content) ==
    \E i \in 1..Len(h) : \E j \in 1..Len(h[i].msgs) : h[i].msgs[j].content = content

\* C18: with add_message calls in flight together the save that completes
\* last wins: whenever no call has the file open, the file holds the text
\* that the save which closed last had dumped, or text that is not JSON where
\* that text was shorter than what the file held; a state is reachable where
\* every call has returned and the file is a JSON document that lacks a turn
\* which is in the in-memory store.
C18_LastSaveWins ==
    (lastOp.op = "save" /\ ~FileOpen)
        => (disk = JsonFile(lastOp.data) \/ disk.text = "notjson")

C18_Witness ==
    /\ AllDone /\ AllOfKind("add_message")
    /\ disk.text = "json"
    /\ \E t \in DOMAIN tasks :
          /\ Stored(history, Contents[t])
          /\ ~Stored(Loads(disk.doc), Contents[t])

ChatTurns(t) ==
    << [role |-> "user", content |-> "hi"],
       [role |-> "assistant", content |-> Contents[t]] >>

\* C19 as stated: once concurrent chats on pairwise distinct ids have all
\* returned, each returned type "complete", each id is listed by
\* get_conversations, and both turns of each are in the in-memory store.
C19_BothTurns ==
    (AllDone /\ AllOfKind("chat"))
        => \A t \in DOMAIN tasks :
              /\ tasks[t].result = "complete"
              /\ tasks[t].id \in ListedIds(history)
              /\ get_messages(history, tasks[t].id) = ChatTurns(t)

\* C19 as amended: once concurrent chats on pairwise distinct ids have all
\* returned, each returned type "complete" and each id is listed by
\* get_conversations; the in-memory store holds both turns of each when
\* max_history >= 2, and the assistant turn alone when max_history = 1.
C19_TurnsWithinBound ==
    (AllDone /\ AllOfKind("chat"))
        => \A t \in DOMAIN tasks :
              /\ tasks[t].result = "complete"
              /\ tasks[t].id \in ListedIds(history)
              /\ max_history >= 2 => get_messages(history, tasks[t].id) = ChatTurns(t)
              /\ max_history = 1
                    => get_messages(history, tasks[t].id) = LastN(ChatTurns(t), 1)

C19_Witness ==
    /\ AllDone /\ AllOfKind("chat")
    /\ max_history = 2
    /\ Len(get_conversations(history)) = MaxTasks
    /\ \A t \in DOMAIN tasks : Len(Get(history, tasks[t].id)) = 2
    /\ Len(Loads(disk.doc)) = MaxTasks

InOneDelay ==
    \A t, u \in DOMAIN tasks : tasks[t].start < tasks[u].start + Delay

\* C20: when the debounced function has been called several times, every call
\* started within one delay period of the others, and all calls have
\* returned, func has run exactly once and every caller has received its
\* result.
C20_CalledOnce ==
    (AllDone /\ AllOfKind("debounced") /\ InOneDelay)
        => /\ call_count = 1
           /\ \A t \in DOMAIN tasks : tasks[t].result = FuncResult

IsSuffix(s, t) == Len(s) <= Len(t) /\ s = SubSeq(t, Len(t) - Len(s) + 1, Len(t))

\* C21: each add_message changes its conversation only by appending one turn
\* at the end and dropping turns from the front: the conversation afterwards
\* is a suffix of the old turns, unchanged in role, content and timestamp and
\* in their order, followed by the new turn (which is last whenever
\* max_history >= 1).
C21_AppendOnly ==
    [][lastOp'.op = "add_message"
          => \E inp \in AddInputs :
                LET old == Get(history, lastOp'.id)
                    new == Get(history', lastOp'.id)
                    turn == Turn(inp[1], inp[2], clock')
                IN  /\ IsSuffix(new, Append(old, turn))
                    /\ max_history >= 1
                          => (new # <<>> /\ new[Len(new)] = turn
                                /\ IsSuffix(SubSeq(new, 1, Len(new) - 1), old))]_vars

C21_Witness ==
    /\ lastOp.op = "add_message" /\ lastOp.id \in tracked
    /\ max_history = 2 /\ Len(added[lastOp.id]) = 3
    /\ Get(history, lastOp.id)[1].timestamp < Get(history, lastOp.id)[2].timestamp
    /\ Get(history, lastOp.id)[1].role # Get(history, lastOp.id)[2].role

Contains(msgs, content) == \E i \in 1..Len(msgs) : msgs[i].content = content

\* C22: chat reads the history before it calls the agent: the message_history
\* handed to the agent is get_messages(id) as it was when the chat started, it
\* does not contain the message being sent, it is not changed afterwards, and
\* as long as the agent call has not returned nothing of this call is in the
\* store.
C22_ReadsBeforeCall ==
    [][\A t \in DOMAIN tasks :
          tasks[t].kind = "chat" =>
              /\ (tasks[t].pc = "new" /\ tasks'[t].pc = "calling")
                    => /\ tasks'[t].message_history = get_messages(history, tasks[t].id)
                       /\ history' = history
              /\ tasks[t].pc # "new"
                    => tasks'[t].message_history = tasks[t].message_history
              /\ ~Contains(tasks'[t].message_history, Questions[t])
              /\ tasks'[t].pc \in {"new", "calling"}
                    => /\ ~Stored(history', Questions[t])
                       /\ ~Stored(history', Contents[t])
                       /\ Len(tasks'[t].todo) = 2]_vars

C22_Witness ==
    \E t, u \in DOMAIN tasks :
        /\ tasks[t].kind = "chat" /\ tasks[t].pc = "calling"
        /\ Len(tasks[t].message_history) = 2
        /\ tasks[t].message_history[1].content = Questions[u]
        /\ tasks[u].pc = "done"

Chats == {t \in DOMAIN tasks : tasks[t].kind = "chat"}

Shared == Get(history, SharedId)

Places(content) == {i \in 1..Len(Shared) : Shared[i].content = content}

\* C30 as stated: once chats on one conversation id that ran concurrently
\* have all returned, with or without a concurrent clear of that id, every
\* stored assistant turn directly follows the user turn of the same call, and
\* without a clear both turns of every call are stored.
C30_ExchangesAtomic ==
    AllDone => \A t \in Chats :
              /\ \A i \in Places(Contents[t]) :
                    i > 1 /\ Shared[i - 1].content = Questions[t]
              /\ Chats = DOMAIN tasks
                    => (Places(Contents[t]) # {} /\ Places(Questions[t]) # {})

\* C30 as amended: once such chats have all returned, a call's user turn, if
\* stored, stands before that call's assistant turn, if stored, and no turn
\* is stored twice; without a clear all turns of all calls are stored, but
\* exchanges may interleave (user, user, assistant, assistant), and with a
\* clear an assistant turn may be left without its user turn.
C30_ExchangesOrdered ==
    AllDone => \A t \in Chats :
              /\ \A i \in Places(Questions[t]) : \A j \in Places(Contents[t]) : i < j
              /\ Cardinality(Places(Questions[t])) <= 1
              /\ Cardinality(Places(Contents[t])) <= 1
              /\ Chats = DOMAIN tasks
                    => /\ Places(Contents[t]) # {} /\ Places(Questions[t]) # {}
                       /\ Len(Shared) = 2 * Cardinality(Chats)

C30_Witness ==
    /\ AllDone /\ Chats = DOMAIN tasks
    /\ Len(Shared) >= 4
    /\ Shared[1].role = "user" /\ Shared[2].role = "user"
    /\ Shared[3].role = "assistant"

\* the state a concurrent clear can leave behind
C30_Orphan ==
    /\ AllDone /\ Chats # DOMAIN tasks
    /\ Shared # <<>> /\ Shared[1].role = "assistant"

Alternates(msgs) ==
    \A i \in 1..(Len(msgs) - 1) : msgs[i].role # msgs[i + 1].role

EndsWithAssistant(msgs) == msgs # <<>> => msgs[Len(msgs)].role = "assistant"

StartsWithUser(msgs) == msgs # <<>> => msgs[1].role = "user"

\* C29 as stated: for every max_history >= 2, after chat calls issued one
\* after the other on a conversation that started empty, the conversation is
\* empty or starts with a user turn, its roles alternate, and it ends with an
\* assistant turn.
C29_WholeExchanges ==
    \A id \in tracked :
        max_history >= 2 =>
            /\ StartsWithUser(Get(history, id))
            /\ Alternates(Get(history, id))
            /\ EndsWithAssistant(Get(history, id))

\* C29 as amended: for every max_history >= 2, after such chat calls the
\* roles of the conversation alternate and it ends with an assistant turn; it
\* starts with a user turn when max_history is even or no more than
\* max_history turns have been appended, and with an assistant turn (holding
\* max_history turns) when max_history is odd and more have been appended.
C29_WholeExchangesIfEven ==
    \A id \in tracked :
        max_history >= 2 =>
            LET msgs == Get(history, id) IN
            /\ Alternates(msgs)
            /\ EndsWithAssistant(msgs)
            /\ (max_history % 2 = 0 \/ Len(added[id]) <= max_history)
                  => StartsWithUser(msgs)
            /\ (max_history % 2 = 1 /\ Len(added[id]) > max_history)
                  => (Len(msgs) = max_history /\ msgs[1].role = "assistant")

C29_Witness ==
    \E id \in tracked :
        /\ max_history = 2 /\ Len(added[id]) = 4
        /\ lastOp.op = "chat" /\ lastOp.id = id /\ lastOp.result = "complete"
        /\ Len(Get(history, id)) = 2
        /\ Get(history, id)[1].role = "user"

\* C23: after a save (the one that ends add_message or clear) the directory
\* of history_path exists, whether or not it existed before, and the file at
\* history_path holds the store.
C23_SaveCreatesParent ==
    lastOp.op \in Mutators => (history_path.dir \in dirs /\ OnDisk(history))

LastCommand(c) == IF c.commands = <<>> THEN None ELSE c.commands[Len(c.commands)]

CommandHandled == Len(cli'.commands) = Len(cli.commands) + 1

\* C24: handling /exit sets is_running to false, and from then on the main
\* loop reads no input, forwards no message to the agent and changes neither
\* the store nor is_running; it ends.
C24_ExitStops ==
    [][/\ (CommandHandled /\ LastCommand(cli') = "/exit") => ~cli'.is_running
       /\ ~cli.is_running
             => /\ ~cli'.is_running
                /\ cli'.reads = cli.reads
                /\ cli'.forwarded = cli.forwarded
                /\ cli'.commands = cli.commands
                /\ history' = history
                /\ cli'.pc = "stopped"]_vars

C24_Witness ==
    /\ cli.pc = "stopped" /\ ~cli.is_running
    /\ LastCommand(cli) = "/exit"
    /\ lastOp.data = "/EXIT now"
    /\ cli.reads = 2 /\ Len(cli.forwarded) = 1

\* C25: handling /clear leaves the current conversation without turns (it is
\* no longer in the store) and every other conversation as it was.
C25_ClearsCurrentOnly ==
    [][(CommandHandled /\ LastCommand(cli') = "/clear")
          => /\ get_messages(history', cli.current_conversation) = <<>>
             /\ ~Has(history', cli.current_conversation)
             /\ \A e \in {history[i] : i \in 1..Len(history)} :
                   e.id # cli.current_conversation
                       => (Has(history', e.id) /\ Get(history', e.id) = e.msgs)
             /\ Keys(history') \subseteq Keys(history)
             /\ cli'.current_conversation = cli.current_conversation]_vars

C25_Witness ==
    /\ LastCommand(cli) = "/clear" /\ lastOp.data = "/clear"
    /\ ~Has(history, cli.current_conversation)
    /\ Len(Get(history, "c1")) = 1
    /\ OnDisk(history)

WhitespaceOnly(u) == \A i \in 1..Len(u) : Char(u, i) \in Spaces

FirstIsSlash(u) == Len(u) >= 1 /\ Char(u, 1) = "/"

\* C26: of the lines the main loop reads, one whose first character is '/' is
\* handled as a command and is not forwarded to agent.chat, so it does not
\* enter the store; a whitespace-only line leads to neither a command nor a
\* chat; every other line is forwarded to agent.chat once, with the current
\* conversation id.
C26_Dispatch ==
    [][cli'.reads = cli.reads + 1
          => LET u == lastOp'.data IN
             /\ FirstIsSlash(u)
                   => /\ CommandHandled
                      /\ cli'.forwarded = cli.forwarded
                      /\ \A id \in Keys(history') : Get(history', id) = Get(history, id)
             /\ WhitespaceOnly(u)
                   => /\ cli'.commands = cli.commands
                      /\ cli'.forwarded = cli.forwarded
                      /\ history' = history
             /\ (~FirstIsSlash(u) /\ ~WhitespaceOnly(u))
                   => /\ cli'.commands = cli.commands
                      /\ cli'.forwarded =
                            Append(cli.forwarded, <<u, cli.current_conversation>>)]_vars

C26_Witness ==
    /\ cli.reads = 3
    /\ cli.forwarded = << <<" /exit", "default">> >>
    /\ cli.commands = <<"/bogus">>
    /\ Contains(Get(history, "default"), " /exit")

Current == session_manager.current_session

\* C27: after any create_session, switch_session and delete_session calls,
\* current_session is None or a session that is in sessions; delete_session
\* on the current session returns True, removes it and sets current_session
\* to None; switch_session with an unknown id returns None and leaves
\* current_session unchanged.
C27_CurrentIsListed ==
    [][/\ Current' = None \/ SessionIndexes(session_manager', Current') # {}
       /\ (lastOp'.op = "delete_session" /\ Current # None /\ lastOp'.id = Current)
             => /\ lastOp'.result = "True"
                /\ Current' = None
                /\ SessionIndexes(session_manager', lastOp'.id) = {}
       /\ (lastOp'.op = "switch_session"
               /\ \A file \in SessionFiles :
                     SessionIndexes(sm_load(session_manager, file), lastOp'.id) = {})
             => /\ lastOp'.result = None
                /\ Current' = Current]_vars

C27_Witness ==
    /\ lastOp.op = "delete_session" /\ lastOp.result = "True"
    /\ Current = None
    /\ session_manager.created = 2
    /\ Len(session_manager.sessions) = 2

\* C28: get_recent_messages(limit) with limit >= 0 returns at most limit
\* messages, and they are the last ones added, in the order of insertion.
C28_AtMostLimit ==
    lastOp.op = "get_recent_messages" =>
        LET msgs == conversation_history.messages
            got == conversation_history.result
            limit == conversation_history.limit
        IN  /\ Len(got) <= limit
            /\ IsSuffix(got, msgs)
            /\ Len(got) = Min(limit, Len(msgs))

====
